---- MODULE Spec2Model ----
(***************************************************************************)
(* Model of automation/teams_responses.py: TeamsReactionsClient, which     *)
(* walks the paginated reactions of a Teams message, keeps the like-type   *)
(* reactions, deduplicates the reacting user ids and resolves each id to a *)
(* display name.                                                           *)
(*                                                                         *)
(* Text is modelled as sequences: a reactionType is a sequence of          *)
(* one-character strings (so that lower() is a real conversion), a URL or  *)
(* resource path is a sequence of tokens (so that strip("/") is a real     *)
(* conversion).  User ids and display names are plain strings.             *)
(***************************************************************************)
EXTENDS Integers, Sequences, FiniteSets

VARIABLES
    session_kind,      \* "built" (client built the session) or "supplied"
    max_retries,       \* TeamsReactionsClient.max_retries
    pc,                \* "idle", "page", "user", "done", "raised"
    message_resource,  \* argument of list_like_reactors
    requested_urls,    \* every URL handed to session.get, in order
    attempts,          \* outcomes of the transport attempts of the current GET
    responses,         \* final outcome of every GET that has ended
    pages,             \* the "value" array of every page received
    next_url,          \* _collect_reactions: next_url
    reactions,         \* _collect_reactions: accumulated records
    liker_ids,         \* result of _extract_liker_ids
    idx,               \* position of the for loop over liker_ids
    lookups,           \* displayName obtained for liker_ids[1..idx-1]
    display_names,     \* list_like_reactors: display_names
    seen_names,        \* list_like_reactors: seen_names
    error,             \* exception that ended the call, or None
    result,            \* returned list (meaningful when pc = "done")
    ex_pc,             \* position of the stand-alone _extract_liker_ids run
    ex_in,             \* its argument
    ex_out             \* its outcome

vars == <<session_kind, max_retries, pc, message_resource, requested_urls,
          attempts, responses, pages, next_url, reactions, liker_ids, idx,
          lookups, display_names, seen_names, error, result, ex_pc, ex_in, ex_out>>

callVars == <<session_kind, max_retries, pc, message_resource, requested_urls,
              attempts, responses, pages, next_url, reactions, liker_ids, idx,
              lookups, display_names, seen_names, error, result>>

exVars == <<ex_pc, ex_in, ex_out>>

----------------------------------------------------------------------------
(* Bounds *)

MaxPages == 2
MaxReactions == 3
MaxRetries == 1
MaxRecs == 2

----------------------------------------------------------------------------
(* Python values *)

\* Python's None in a string-valued slot (dict.get of an absent or null key).
None == "<None>"

\* Truthiness of a string-valued slot: None and "" are falsy.
TruthyStr(s) == s # None /\ s # ""

\* A JSON member holding an object, null, or absent from its parent.
\* An object is described by its "id" member and by whether it has others.
MissingField == [kind |-> "missing", has_id |-> FALSE, id |-> None, extra |-> FALSE]
NullField == [kind |-> "null", has_id |-> FALSE, id |-> None, extra |-> FALSE]
EmptyObj == [kind |-> "obj", has_id |-> FALSE, id |-> None, extra |-> FALSE]
ObjNoId == [kind |-> "obj", has_id |-> FALSE, id |-> None, extra |-> TRUE]
ObjId(i) == [kind |-> "obj", has_id |-> TRUE, id |-> i, extra |-> FALSE]

\* A JSON member holding a string, null, or absent.
MissingStr == [kind |-> "missing", s |-> <<>>]
NullStr == [kind |-> "null", s |-> <<>>]
Str(chars) == [kind |-> "str", s |-> chars]

\* dict.get(key) of a string member: None for an absent key.
GetOrNone(f) == IF f.kind = "missing" THEN NullStr ELSE f

\* Truthiness of a string member: None and "" are falsy.
TruthyText(f) == f.kind = "str" /\ f.s # <<>>

\* dict.get(key, {}) on a reaction: the default only replaces an absent key.
GetOrEmpty(f) == IF f.kind = "missing" THEN EmptyObj ELSE f

\* bool(x) for None or a dict: None and {} are falsy.
TruthyObj(f) == f.kind = "obj" /\ (f.has_id \/ f.extra)

\* dict.get("id") on an object.
GetId(f) == IF f.has_id THEN f.id ELSE None

Reaction(t, u, c) == [reactionType |-> t, user |-> u, createdBy |-> c]

----------------------------------------------------------------------------
(* str.lower *)

UpperChars == <<"A","B","C","D","E","F","G","H","I","J","K","L","M",
                "N","O","P","Q","R","S","T","U","V","W","X","Y","Z">>
LowerChars == <<"a","b","c","d","e","f","g","h","i","j","k","l","m",
                "n","o","p","q","r","s","t","u","v","w","x","y","z">>

LowerChar(c) ==
    IF \E i \in 1..Len(UpperChars) : UpperChars[i] = c
    THEN LowerChars[CHOOSE i \in 1..Len(UpperChars) : UpperChars[i] = c]
    ELSE c

LowerNoop(chars) == chars

Lower(chars) == [i \in 1..Len(chars) |-> LowerChar(chars[i])]

like == <<"l","i","k","e">>
thumbsup == <<"t","h","u","m","b","s","u","p">>
thumbs_up == <<"t","h","u","m","b","s","_","u","p">>
LIKE == <<"L","I","K","E">>
THUMBS_UP == <<"T","H","U","M","B","S","_","U","P">>
Thumbs_Up == <<"T","h","u","m","b","s","_","U","p">>
heart == <<"h","e","a","r","t">>
likes == <<"l","i","k","e","s">>
lik == <<"l","i","k">>

LikeTypes == {like, thumbsup, thumbs_up}

----------------------------------------------------------------------------
(* _extract_liker_ids *)

\* (reaction.get("reactionType") or "").lower()
ReactionType(reaction) ==
    Lower(IF reaction.reactionType.kind = "str" THEN reaction.reactionType.s ELSE <<>>)

IsLikeType(reaction) == ReactionType(reaction) \in LikeTypes

\* reaction.get("user", {}) or reaction.get("createdBy", {})
ActorObject(reaction) ==
    LET u == GetOrEmpty(reaction.user)
    IN  IF TruthyObj(u) THEN u ELSE GetOrEmpty(reaction.createdBy)

IsNewLikerNoDedup(user_id, seen) == TruthyStr(user_id)

\* if user_id and user_id not in seen
IsNewLiker(user_id, seen) == TruthyStr(user_id) /\ user_id \notin seen

AddLikerFront(ids, user_id) == <<user_id>> \o ids

\* liker_ids.append(user_id)
AddLiker(ids, user_id) == Append(ids, user_id)

\* One iteration of the for loop; .get("id") on None raises AttributeError.
ExtractStep(acc, reaction) ==
    IF acc.raised \/ ~IsLikeType(reaction) THEN acc
    ELSE LET obj == ActorObject(reaction)
         IN  IF obj.kind = "null"
             THEN [acc EXCEPT !.raised = TRUE]
             ELSE IF IsNewLiker(GetId(obj), acc.seen)
                  THEN [acc EXCEPT !.ids = AddLiker(acc.ids, GetId(obj)),
                                   !.seen = acc.seen \cup {GetId(obj)}]
                  ELSE acc

RECURSIVE ExtractLoop(_, _, _)
ExtractLoop(rs, i, acc) ==
    IF i > Len(rs) THEN acc ELSE ExtractLoop(rs, i + 1, ExtractStep(acc, rs[i]))

\* Outcome of _extract_liker_ids: raised, or the list liker_ids.
_extract_liker_ids(rs) ==
    LET acc == ExtractLoop(rs, 1, [raised |-> FALSE, ids |-> <<>>, seen |-> {}])
    IN  [raised |-> acc.raised, ids |-> IF acc.raised THEN <<>> ELSE acc.ids]

----------------------------------------------------------------------------
(* URLs *)

DEFAULT_BASE_URL == <<"https://graph.microsoft.com/v1.0">>

RECURSIVE LStrip(_)
LStrip(p) == IF p # <<>> /\ Head(p) = "/" THEN LStrip(Tail(p)) ELSE p

RECURSIVE RStrip(_)
RStrip(p) ==
    IF p # <<>> /\ p[Len(p)] = "/" THEN RStrip(SubSeq(p, 1, Len(p) - 1)) ELSE p

\* str.strip("/")
Strip(p) == RStrip(LStrip(p))

\* __post_init__: self.base_url = self.base_url.rstrip("/")
base_url == RStrip(DEFAULT_BASE_URL)

_build_reactions_url(resource) ==
    base_url \o <<"/">> \o Strip(resource) \o <<"/reactions">>

\* _fetch_user_display_name: f"{self.base_url}/users/{user_id}"
UserUrl(user_id) == base_url \o <<"/users/">> \o <<user_id>>

IsUserUrl(url) == Len(url) > Len(base_url) /\ url[Len(base_url) + 1] = "/users/"

\* The server's continuation link after page k of a walk that began at url.
Digits == <<"1", "2", "3", "4", "5", "6", "7", "8", "9">>
NextLink(url, k) == url \o <<"?page=", Digits[k + 1]>>

----------------------------------------------------------------------------
(* Transport *)

\* Outcome of one attempt: a response with a status, or a RequestException.
Response(status) == [exc |-> FALSE, status |-> status]
ConnectionFailure == [exc |-> TRUE, status |-> 0]

status_forcelist == {429, 500, 502, 503, 504}

\* Retry(total=max_retries, status_forcelist=..., raise_on_status=False):
\* a failed connection or a listed status is retried while the budget lasts.
Retryable(out) == out.exc \/ out.status \in status_forcelist

BudgetLeftOffByOne(n, made) == Len(made) <= n

BudgetLeft(n, made) == Len(made) < n

\* Only a session built by _build_session mounts the retrying adapter.
ShouldRetry(out) ==
    session_kind = "built" /\ Retryable(out) /\ BudgetLeft(max_retries, attempts)

ResponseOkBelow500(status) == status < 500

\* response.ok
ResponseOk(status) == 200 <= status /\ status < 300

\* _get_json: the exception it raises for a final outcome, or None.
GetJsonError(out, json_ok) ==
    IF out.exc THEN "RequestException"
    ELSE IF ~ResponseOk(out.status) THEN "HTTPError"
    ELSE IF ~json_ok THEN "ValueError"
    ELSE None

----------------------------------------------------------------------------
(* Inputs *)

\* Reaction records a page of the call may carry.
RecordPool ==
    { Reaction(Str(like), ObjId("u1"), MissingField),
      Reaction(Str(THUMBS_UP), MissingField, ObjId("u2")),
      Reaction(Str(heart), ObjId("u1"), MissingField),
      Reaction(Str(like), MissingField, MissingField),
      Reaction(Str(like), MissingField, NullField) }

\* displayName of a user payload: absent, empty, or a name.
NamePool == {None, "", "Ann", "Bob"}

\* message_resource arguments.
ResourcePool ==
    { <<>>, <<"/">>, <<"/", "chats/1/messages/abc", "/">> }

\* Final statuses a server may answer with, besides a failed connection.
StatusPool == {200, 404, 429, 500}

Outcomes == {Response(st) : st \in StatusPool} \cup {ConnectionFailure}

RECURSIVE SeqsUpTo(_, _)
SeqsUpTo(S, n) ==
    IF n = 0 THEN {<<>>}
    ELSE LET shorter == SeqsUpTo(S, n - 1)
         IN  shorter \cup {Append(q, x) : q \in shorter, x \in S}

----------------------------------------------------------------------------
(* The call: list_like_reactors *)

InitCall(configs) ==
    /\ \E c \in configs : session_kind = c[1] /\ max_retries = c[2]
    /\ pc = "idle"
    /\ message_resource = <<>>
    /\ requested_urls = <<>>
    /\ attempts = <<>>
    /\ responses = <<>>
    /\ pages = <<>>
    /\ next_url = NullStr
    /\ reactions = <<>>
    /\ liker_ids = <<>>
    /\ idx = 0
    /\ lookups = <<>>
    /\ display_names = <<>>
    /\ seen_names = {}
    /\ error = None
    /\ result = <<>>

InitExtract ==
    /\ ex_pc = "off"
    /\ ex_in = <<>>
    /\ ex_out = [raised |-> FALSE, ids |-> <<>>]

\* list_like_reactors up to its first session.get: the URL is built and the
\* first reactions page is requested.
ListLikeReactors(resource) ==
    /\ pc = "idle"
    /\ message_resource' = resource
    /\ next_url' = Str(_build_reactions_url(resource))
    /\ requested_urls' = <<_build_reactions_url(resource)>>
    /\ pc' = "page"
    /\ UNCHANGED <<session_kind, max_retries, attempts, responses, pages, reactions,
                   liker_ids, idx, lookups, display_names, seen_names, error, result>>
    /\ UNCHANGED exVars

\* The retrying adapter of a built session swallows a retryable outcome and
\* sends the request again.
Retry(out) ==
    /\ pc \in {"page", "user"}
    /\ ShouldRetry(out)
    /\ attempts' = Append(attempts, out)
    /\ UNCHANGED <<session_kind, max_retries, pc, message_resource, requested_urls,
                   responses, pages, next_url, reactions, liker_ids, idx, lookups,
                   display_names, seen_names, error, result>>
    /\ UNCHANGED exVars

\* _get_json raises: the exception unwinds list_like_reactors.
GetFails(out, json_ok) ==
    /\ pc \in {"page", "user"}
    /\ ~ShouldRetry(out)
    /\ GetJsonError(out, json_ok) # None
    /\ attempts' = Append(attempts, out)
    /\ responses' = Append(responses, out)
    /\ error' = GetJsonError(out, json_ok)
    /\ pc' = "raised"
    /\ UNCHANGED <<session_kind, max_retries, message_resource, requested_urls, pages,
                   next_url, reactions, liker_ids, idx, lookups, display_names, seen_names,
                   result>>
    /\ UNCHANGED exVars

ExtendOverwrite(acc, page_reactions) == page_reactions

\* reactions.extend(page_reactions)
Extend(acc, page_reactions) == acc \o page_reactions

\* _collect_reactions: a page arrives (link is its "@odata.nextLink" member).
\* With a continuation link the next page
\* is requested; without one the loop ends, _extract_liker_ids runs and the
\* first lookup is requested (or the call returns, or raises).
PageReceived(out, value, link) ==
    /\ pc = "page"
    /\ ~ShouldRetry(out)
    /\ GetJsonError(out, TRUE) = None
    /\ responses' = Append(responses, out)
    /\ pages' = Append(pages, value)
    /\ reactions' = Extend(reactions, value)
    /\ next_url' = GetOrNone(link)
    /\ IF TruthyText(next_url')
       THEN /\ requested_urls' = Append(requested_urls, next_url'.s)
            /\ attempts' = <<>>
            /\ UNCHANGED <<pc, liker_ids, idx, error, result>>
       ELSE LET ex == _extract_liker_ids(reactions')
            IN  IF ex.raised
                THEN /\ pc' = "raised"
                     /\ error' = "AttributeError"
                     /\ attempts' = Append(attempts, out)
                     /\ UNCHANGED <<requested_urls, liker_ids, idx, result>>
                ELSE /\ liker_ids' = ex.ids
                     /\ UNCHANGED error
                     /\ IF ex.ids = <<>>
                        THEN /\ pc' = "done"
                             /\ result' = display_names
                             /\ attempts' = Append(attempts, out)
                             /\ UNCHANGED <<requested_urls, idx>>
                        ELSE /\ pc' = "user"
                             /\ idx' = 1
                             /\ requested_urls' =
                                    Append(requested_urls, UserUrl(ex.ids[1]))
                             /\ attempts' = <<>>
                             /\ UNCHANGED result
    /\ UNCHANGED <<session_kind, max_retries, message_resource, lookups,
                   display_names, seen_names>>
    /\ UNCHANGED exVars

KeepNameNoDedup(name, seen) == TruthyStr(name)

\* if name and name not in seen_names
KeepName(name, seen) == TruthyStr(name) /\ name \notin seen

\* _fetch_user_display_name returns and the for loop of list_like_reactors
\* goes on: the next lookup is requested, or the list is returned.
UserReceived(out, name) ==
    /\ pc = "user"
    /\ ~ShouldRetry(out)
    /\ GetJsonError(out, TRUE) = None
    /\ responses' = Append(responses, out)
    /\ lookups' = Append(lookups, name)
    /\ IF KeepName(name, seen_names)
       THEN /\ display_names' = Append(display_names, name)
            /\ seen_names' = seen_names \cup {name}
       ELSE UNCHANGED <<display_names, seen_names>>
    /\ IF idx < Len(liker_ids)
       THEN /\ idx' = idx + 1
            /\ requested_urls' = Append(requested_urls, UserUrl(liker_ids[idx + 1]))
            /\ attempts' = <<>>
            /\ UNCHANGED <<pc, result>>
       ELSE /\ pc' = "done"
            /\ result' = display_names'
            /\ attempts' = Append(attempts, out)
            /\ UNCHANGED <<idx, requested_urls>>
    /\ UNCHANGED <<session_kind, max_retries, message_resource, pages, next_url,
                   reactions, liker_ids, error>>
    /\ UNCHANGED exVars

\* The pages the server may send next: the records seen in one call stay
\* within MaxReactions, and a continuation link is only offered while fewer
\* than MaxPages pages have been sent; endings are the ways the last page
\* says that it is the last (no "@odata.nextLink" member, or an empty one).
PageValues(records) == SeqsUpTo(records, MaxReactions - Len(reactions))
Links(endings) ==
    endings \cup
        IF Len(pages) + 1 < MaxPages
        THEN {Str(NextLink(_build_reactions_url(message_resource), Len(pages) + 1))}
        ELSE {}

Step(resources, outcomes, records, endings, names) ==
    \/ \E resource \in resources : ListLikeReactors(resource)
    \/ \E out \in outcomes : Retry(out)
    \/ \E out \in outcomes, json_ok \in BOOLEAN : GetFails(out, json_ok)
    \/ \E out \in outcomes, value \in PageValues(records), link \in Links(endings) :
           PageReceived(out, value, link)
    \/ \E out \in outcomes, name \in names : UserReceived(out, name)

\* Spec: the contents of the pages and of the user records vary; the server
\* answers 200 or 500.
Init == InitCall({<<"built", 1>>, <<"supplied", 3>>}) /\ InitExtract

Next ==
    Step({<<"/", "chats/1/messages/abc", "/">>}, {Response(200), Response(500)},
         RecordPool, {MissingStr}, NamePool)

Spec == Init /\ [][Next]_vars

\* SpecFaults: the resource, the statuses, the failures and the form of the
\* last page vary; the pages carry plain like records.
FaultRecords ==
    { Reaction(Str(like), ObjId("u1"), MissingField),
      Reaction(Str(like), ObjId("u2"), MissingField) }

InitFaults == InitCall({"built", "supplied"} \X (0..MaxRetries)) /\ InitExtract

NextFaults ==
    Step(ResourcePool, Outcomes, FaultRecords, {MissingStr, Str(<<>>)}, {"Ann"})

SpecFaults == InitFaults /\ [][NextFaults]_vars

----------------------------------------------------------------------------
(* SpecExtract: _extract_liker_ids on its own, over every shape of record *)

UserShapes ==
    {MissingField, NullField, EmptyObj, ObjNoId, ObjId(""), ObjId("u1"), ObjId("u2")}

CreatedByShapes == {MissingField, NullField, EmptyObj, ObjId("u1"), ObjId("u2")}

TypeShapes ==
    { MissingStr, NullStr, Str(<<>>), Str(like), Str(LIKE), Str(thumbsup),
      Str(THUMBS_UP), Str(Thumbs_Up), Str(heart), Str(likes), Str(lik) }

ExtractPool ==
    {Reaction(Str(like), u, c) : u \in UserShapes, c \in CreatedByShapes}
        \cup {Reaction(t, ObjId("u1"), MissingField) : t \in TypeShapes}
        \cup {Reaction(t, MissingField, ObjId("u2")) : t \in TypeShapes}

\* The caller puts one more record in the list it will pass.
ExtractAppend(reaction) ==
    /\ ex_pc = "input"
    /\ Len(ex_in) < MaxRecs
    /\ ex_in' = Append(ex_in, reaction)
    /\ UNCHANGED <<ex_pc, ex_out>>
    /\ UNCHANGED callVars

\* _extract_liker_ids(ex_in) runs.
ExtractCall ==
    /\ ex_pc = "input"
    /\ ex_out' = _extract_liker_ids(ex_in)
    /\ ex_pc' = "returned"
    /\ UNCHANGED ex_in
    /\ UNCHANGED callVars

InitExtractRun ==
    /\ InitCall({<<"supplied", 3>>})
    /\ ex_pc = "input"
    /\ ex_in = <<>>
    /\ ex_out = [raised |-> FALSE, ids |-> <<>>]

NextExtract ==
    \/ \E reaction \in ExtractPool : ExtractAppend(reaction)
    \/ ExtractCall

SpecExtract == InitExtractRun /\ [][NextExtract]_vars

----------------------------------------------------------------------------
(* Vocabulary of the properties *)

Range(q) == {q[i] : i \in 1..Len(q)}

RECURSIVE Flatten(_)
Flatten(qs) == IF qs = <<>> THEN <<>> ELSE Head(qs) \o Flatten(Tail(qs))

RECURSIVE TotalLen(_)
TotalLen(qs) == IF qs = <<>> THEN 0 ELSE Len(Head(qs)) + TotalLen(Tail(qs))

Min(S) == CHOOSE x \in S : \A y \in S : x <= y

\* The reactionType texts of the model that are like-type when lowercased.
KeptTypes == {Str(like), Str(LIKE), Str(thumbsup), Str(THUMBS_UP), Str(Thumbs_Up)}

\* Every record received, in page order, then record order within a page.
Observed == Flatten(pages)

\* Positions of Observed where id reacted with a like-type reaction.
LikePositions(id) ==
    {i \in 1..Len(Observed) :
        Observed[i].reactionType \in KeptTypes /\ GetId(ActorObject(Observed[i])) = id}

\* The ids observed with a like-type reaction.
ObservedLikers ==
    {id \in {GetId(ActorObject(Observed[i])) : i \in 1..Len(Observed)} :
        TruthyStr(id) /\ LikePositions(id) # {}}

FirstLike(id) == Min(LikePositions(id))

\* The URLs requested for pages and for users, each in request order.
PageRequests == SelectSeq(requested_urls, LAMBDA u : ~IsUserUrl(u))
UserRequests == SelectSeq(requested_urls, IsUserUrl)

\* The displayName the server gave for id (None if it was never asked).
NameOf(id) ==
    IF \E j \in 1..Len(lookups) : UserRequests[j] = UserUrl(id)
    THEN lookups[CHOOSE j \in 1..Len(lookups) : UserRequests[j] = UserUrl(id)]
    ELSE None

----------------------------------------------------------------------------
(* C1 *)

\* The first observation, as a like, of an id whose name is n.
FirstLikeOfName(n) == Min({FirstLike(id) : id \in {x \in ObservedLikers : NameOf(x) = n}})

\* C1: a successful list_like_reactors call returns the display names in the
\* order in which their actor ids were first observed as like-type reactions
\* across the pages (page order, then record order); ids seen again later, or
\* seen only with other reactions, do not change the order.
C1_OutputOrder ==
    pc = "done" =>
        /\ Range(result) = {NameOf(id) : id \in ObservedLikers} \ {None, ""}
        /\ \A a, b \in 1..Len(result) :
               a < b => FirstLikeOfName(result[a]) < FirstLikeOfName(result[b])

\* Scenario A of the tests: u1 likes, u2 thumbs up, then u1 again with a heart
\* on the second page.
C1_Witness ==
    /\ pc = "done"
    /\ pages = << << Reaction(Str(like), ObjId("u1"), MissingField),
                     Reaction(Str(THUMBS_UP), MissingField, ObjId("u2")) >>,
                  << Reaction(Str(heart), ObjId("u1"), MissingField) >> >>
    /\ result = <<"Ann", "Bob">>

----------------------------------------------------------------------------
(* C7 *)

\* C7: no display name occurs twice in a returned list; when distinct ids
\* resolve to the same name, the name appears once, at the position of the
\* first of those ids (after the distinct names of the ids before it).
C7_NameDedup ==
    pc = "done" =>
        /\ \A a, b \in 1..Len(result) : result[a] = result[b] => a = b
        /\ \A j \in 1..Len(lookups) :
               (TruthyStr(lookups[j]) /\ \A k \in 1..(j - 1) : lookups[k] # lookups[j])
                   => LET before == {lookups[k] : k \in 1..(j - 1)} \ {None, ""}
                      IN  /\ Len(result) > Cardinality(before)
                          /\ result[Cardinality(before) + 1] = lookups[j]

C7_Witness ==
    /\ pc = "done"
    /\ liker_ids = <<"u1", "u2">>
    /\ lookups = <<"Ann", "Ann">>
    /\ result = <<"Ann">>

----------------------------------------------------------------------------
(* C8 *)

\* C8: _collect_reactions issues one GET per page, follows each response's
\* @odata.nextLink and stops at the first response without one; after N
\* pages it has made exactly N page GETs and the accumulated list is the
\* concatenation of the N value arrays, in page order.
C8_PaginationWalk ==
    /\ PageRequests # <<>> => PageRequests[1] = _build_reactions_url(message_resource)
    /\ pc = "page" =>
           /\ TruthyText(next_url)
           /\ Len(PageRequests) = Len(pages) + 1
           /\ PageRequests[Len(PageRequests)] = next_url.s
           /\ reactions = Flatten(pages)
    /\ (pc \in {"user", "done"} \/ (pc = "raised" /\ error = "AttributeError")) =>
           /\ ~TruthyText(next_url)
           /\ Len(PageRequests) = Len(pages)
           /\ reactions = Flatten(pages)
           /\ Len(reactions) = TotalLen(pages)

C8_Witness ==
    /\ pc \in {"user", "done"}
    /\ Len(pages) = MaxPages
    /\ \A i \in 1..Len(pages) : pages[i] # <<>>
    /\ Len(PageRequests) = MaxPages

----------------------------------------------------------------------------
(* C10 *)

\* C10: in a successful call every reactions-page GET precedes every lookup
\* GET; after the last page exactly one lookup is issued per distinct liker
\* id, in first-seen order, so the GETs number pages + distinct liker ids.
C10_RequestSequence ==
    /\ \A i, j \in 1..Len(requested_urls) :
           (IsUserUrl(requested_urls[i]) /\ ~IsUserUrl(requested_urls[j])) => j < i
    /\ pc = "done" =>
           /\ Len(requested_urls) = Len(pages) + Cardinality(ObservedLikers)
           /\ Range(UserRequests) = {UserUrl(id) : id \in ObservedLikers}
           /\ \A id1, id2 \in ObservedLikers :
                  FirstLike(id1) < FirstLike(id2) =>
                      \E i, j \in 1..Len(UserRequests) :
                          /\ i < j
                          /\ UserRequests[i] = UserUrl(id1)
                          /\ UserRequests[j] = UserUrl(id2)

\* Three like records of two users on two pages: four GETs.
C10_Witness ==
    /\ pc = "done"
    /\ Len(pages) = 2
    /\ Cardinality(ObservedLikers) = 2
    /\ Len(reactions) = 3
    /\ \A i \in 1..3 : reactions[i].reactionType \in KeptTypes
                          /\ TruthyStr(GetId(ActorObject(reactions[i])))
    /\ Len(requested_urls) = 4

----------------------------------------------------------------------------
(* C5 *)

\* C5: missing-field conditions never surface to the caller: a record with
\* no usable actor id (user and createdBy each missing, null or lacking an
\* id) is skipped without raising, so the only exceptions of a call are
\* those of its GETs.
C5_MissingFieldsNeverSurface ==
    pc = "raised" => error \in {"HTTPError", "ValueError", "RequestException"}

----------------------------------------------------------------------------
(* C2 *)

Is2xx(out) == ~out.exc /\ 200 <= out.status /\ out.status <= 299

\* C2: a call fully succeeds or fails entirely: as soon as one GET (a page or
\* a lookup) ends in a non-2xx response the call raises, returns no list and
\* issues no further GET; a failing page fetch is followed by no lookup.
C2_FailsEntirely ==
    \A i \in 1..Len(responses) :
        (~responses[i].exc /\ ~Is2xx(responses[i])) =>
            /\ pc = "raised"
            /\ error = "HTTPError"
            /\ result = <<>>
            /\ i = Len(responses)
            /\ Len(requested_urls) = i
            /\ ~IsUserUrl(requested_urls[i]) => UserRequests = <<>>

\* A lookup fails after a page and a first name were obtained.
C2_Witness ==
    /\ pc = "raised"
    /\ error = "HTTPError"
    /\ Len(pages) = 1
    /\ lookups = <<"Ann">>
    /\ display_names = <<"Ann">>
    /\ responses[Len(responses)] = Response(404)
    /\ IsUserUrl(requested_urls[Len(requested_urls)])

----------------------------------------------------------------------------
(* C6 *)

All500 == attempts # <<>> /\ \A i \in 1..Len(attempts) : attempts[i] = Response(500)

\* C6 as claimed: when the server answers 500 to every attempt of a GET, a
\* client with max_retries = n makes exactly n + 1 attempts and the call
\* ends with an HTTP error, however the session was provided.
C6_RetryExhaustionAnySession ==
    (pc = "raised" /\ All500) =>
        (error = "HTTPError" /\ Len(attempts) = max_retries + 1)

\* C6, amended: when the server answers 500 to every attempt of a GET, the
\* call ends with an HTTP error after exactly max_retries + 1 attempts if the
\* client built its session, and after the single session.get it makes if
\* the session was supplied by the caller; until then the GET is pending.
C6_RetryExhaustion ==
    All500 =>
        \/ /\ pc = "raised"
           /\ error = "HTTPError"
           /\ Len(attempts) = IF session_kind = "built" THEN max_retries + 1 ELSE 1
        \/ /\ pc \in {"page", "user"}
           /\ session_kind = "built"
           /\ Len(attempts) <= max_retries

C6_Witness ==
    /\ pc = "raised"
    /\ session_kind = "built"
    /\ max_retries = MaxRetries
    /\ All500
    /\ Len(attempts) = MaxRetries + 1
    /\ error = "HTTPError"

----------------------------------------------------------------------------
(* C3 *)

\* C3: a message_resource that is empty once its leading and trailing "/"
\* are trimmed makes the call fail before any network call: no GET is made.
C3_EmptyPathRejected ==
    (pc # "idle" /\ Strip(message_resource) = <<>>) =>
        (requested_urls = <<>> /\ pc = "raised" /\ error # "HTTPError")

----------------------------------------------------------------------------
(* C4 *)

HasUsableId(f) == f.kind = "obj" /\ f.has_id /\ TruthyStr(f.id)

\* C4: for a like-type record the actor id is the id of user when that id is
\* present and non-empty, and the id of createdBy whenever it is not.
C4_UserThenCreatedBy ==
    (ex_pc = "returned" /\ Len(ex_in) = 1 /\ ex_in[1].reactionType = Str(like)
        /\ HasUsableId(ex_in[1].createdBy)) =>
        /\ ~ex_out.raised
        /\ ex_out.ids = << IF HasUsableId(ex_in[1].user)
                           THEN ex_in[1].user.id
                           ELSE ex_in[1].createdBy.id >>

----------------------------------------------------------------------------
(* C9 *)

Reorderings(n) == {f \in [1..n -> 1..n] : \A i, j \in 1..n : f[i] = f[j] => i = j}

Permuted(q, f) == [i \in 1..Len(q) |-> q[f[i]]]

\* C9: a record contributes its actor id iff its reactionType, lowercased,
\* is "like", "thumbsup" or "thumbs_up" ("LIKE" and "THUMBS_UP" are kept);
\* any other type, a missing or a null type is discarded, and the ids kept
\* do not depend on the order of the records.
C9_FilterRule ==
    ex_pc = "returned" =>
        /\ ~ex_out.raised =>
               Range(ex_out.ids) =
                   {GetId(ActorObject(ex_in[i])) :
                       i \in {k \in 1..Len(ex_in) : ex_in[k].reactionType \in KeptTypes}}
                   \ {None, ""}
        /\ \A f \in Reorderings(Len(ex_in)) :
               LET other == _extract_liker_ids(Permuted(ex_in, f))
               IN  other.raised = ex_out.raised /\ Range(other.ids) = Range(ex_out.ids)

C9_Witness ==
    /\ ex_pc = "returned"
    /\ ex_in = << Reaction(NullStr, ObjId("u1"), MissingField),
                  Reaction(Str(THUMBS_UP), MissingField, ObjId("u2")) >>
    /\ ex_out = [raised |-> FALSE, ids |-> <<"u2">>]

====
